---- MODULE Spec2Model ----
(***************************************************************************)
(* CodeLaft STORE (src/app.py, src/config.py): the order / entitlement /   *)
(* stock / promo store, the TRON payment matcher, the three settlement     *)
(* call sites that poll the provider (background monitor,                  *)
(* check_payment_status, confirm_payment), the admin manual_confirm, the   *)
(* trial purchase, the Telegram notification after each commit,            *)
(* check_subscriptions, and the start-up of the payment monitor.           *)
(*                                                                         *)
(* Units.  Money is kept in SUN (1 USDT = 1000000 SUN), the unit the       *)
(* provider reports, so that Decimal(amount)/1000000 >= required * 0.99    *)
(* is the integer comparison amount * 100 >= required * 99.  Time is in    *)
(* seconds since the process started.                                      *)
(*                                                                         *)
(* Database.  Every handler works on its own SQLAlchemy session: it loads  *)
(* the order row (the snapshot kept in the request record), and its        *)
(* db.session.commit() is one SQLite transaction.  The unit of work writes *)
(* only the columns whose value differs from the loaded one, so            *)
(* order.status = 'paid' on a row loaded as 'paid' emits no UPDATE of      *)
(* status.  product.quantity and promocode.used_count are loaded after the *)
(* autoflush that takes SQLite's write lock, so they are read and written  *)
(* in the same atomic step as the commit.                                  *)
(***************************************************************************)
EXTENDS Integers, Sequences, FiniteSets, TLC

-----------------------------------------------------------------------------
(* Bounds of the model *)

MaxOrders == 2
MaxRequests == 2
NSlots == 2
MaxTx == 1
TimeStep == 1800
MaxTime == 3600
NUsers == 1
NTrialUsers == 2
MaxTrialCap == 2

(* Program constants *)

PAYMENT_TIMEOUT == 1800
LookbackSeconds == 3600
SunPerUsdt == 1000000
TolerancePercent == 99
DaySeconds == 86400

Null == -1

Users == 1 .. NUsers
Slots == 1 .. NSlots
Loops == 1 .. (NSlots + 1)
ProductIds == {1, 2}
PromoIds == {1}

-----------------------------------------------------------------------------
(* Addresses and str.lower() *)

UpperLetters ==
  <<"A","B","C","D","E","F","G","H","I","J","K","L","M",
    "N","O","P","Q","R","S","T","U","V","W","X","Y","Z">>

LowerLetters ==
  <<"a","b","c","d","e","f","g","h","i","j","k","l","m",
    "n","o","p","q","r","s","t","u","v","w","x","y","z">>

LowerChar(c) ==
  IF \E i \in 1 .. Len(UpperLetters) : UpperLetters[i] = c
  THEN LowerLetters[CHOOSE i \in 1 .. Len(UpperLetters) : UpperLetters[i] = c]
  ELSE c

Lower(s) == [i \in 1 .. Len(s) |-> LowerChar(s[i])]

CRYPTO_WALLET ==
  <<"T","U","g","x","6","u","e","h","A","b","6","w","i","2","i","7","9",
    "8","C","e","t","N","g","u","1","J","H","y","h","G","C","J","x","h">>

-----------------------------------------------------------------------------
(* Transaction hashes: None, a provider hash, or MANUAL-<timestamp> *)

NoHash == [kind |-> "none", v |-> 0]
TxHash(i) == [kind |-> "tx", v |-> i]
ManualHash(t) == [kind |-> "manual", v |-> t]

-----------------------------------------------------------------------------
VARIABLES
  now,              \* datetime.utcnow()
  orders,           \* table order: sequence of rows, id = index
  userProducts,     \* table user_product: sequence of rows
  products,         \* table product: id -> row
  promocodes,       \* table promocode: id -> row
  chain,            \* the provider's transfers of the wallet, newest first
  reqs,             \* request threads: slot -> handler in flight
  nreq,             \* requests started so far
  mon,              \* monitor threads: loop -> position in monitor()
  monitor_started,  \* the global _monitor_started
  main_started,     \* the __main__ block has run
  hook,             \* before_request hook of a request thread: slot -> pc
  pending_starts,   \* threads spawned on start_payment_monitor, not yet run
  telegram,         \* orders whose notification reached the Telegram chat
  updated           \* the 'updated' count of the last check_subscriptions response

vars == <<now, orders, userProducts, products, promocodes, chain, reqs, nreq,
          mon, monitor_started, main_started, hook, pending_starts, telegram, updated>>

store == <<orders, userProducts, products, promocodes>>
startup == <<monitor_started, main_started, hook, pending_starts>>

OrderIds == 1 .. Len(orders)

Entitlements(o) == {i \in 1 .. Len(userProducts) : userProducts[i].order_id = o}

-----------------------------------------------------------------------------
(* TronPaymentVerifier *)

\* The transfers of the window [start, now].
InWindow(start) == SelectSeq(chain, LAMBDA tx : tx.timestamp >= start /\ tx.timestamp <= now)

\* The ways requests.get(url, params=params, timeout=10) and response.json()
\* can go wrong: no connection, no answer within the timeout, a status other
\* than 200, a body that is not JSON, and a body that is JSON but neither a
\* list nor an object with a list under 'data', such as null.
ProviderFailures == {"unreachable", "timeout", "non_200", "not_json", "json_null"}

\* What the provider can answer to a request for the window [start, now].
ProviderResponses(start) ==
  {[kind |-> k, data |-> <<>>] : k \in ProviderFailures}
    \cup {[kind |-> "transfers", data |-> InWindow(start)]}

\* The values get_wallet_transactions returns: a sequence of transfers, or a
\* value that is not a sequence.
EmptySequence == [sequence |-> TRUE, data |-> <<>>]
NotASequence == [sequence |-> FALSE, data |-> <<>>]

\* try: response = requests.get(...); if status_code == 200: data = json();
\*      return data.get('data', []) if isinstance(data, dict) else data
\* except Exception: print(...)
\* return []
get_wallet_transactions(response) ==
  CASE response.kind \in {"unreachable", "timeout", "not_json"} -> EmptySequence
    [] response.kind = "non_200" -> EmptySequence
    [] response.kind = "json_null" -> NotASequence
    [] response.kind = "transfers" -> [sequence |-> TRUE, data |-> response.data]

TxMatches(tx, order, wallet_address) ==
  /\ tx.tokenAbbr = "USDT"
  /\ tx.amount * 100 >= order.amount * TolerancePercent
  /\ tx.toAddress = Lower(wallet_address)
  /\ tx.confirmed

RECURSIVE FirstMatch(_, _, _)
FirstMatch(transactions, order, wallet_address) ==
  IF transactions = <<>> THEN [success |-> FALSE, transaction_hash |-> NoHash]
  ELSE IF TxMatches(Head(transactions), order, wallet_address)
       THEN [success |-> TRUE, transaction_hash |-> Head(transactions).hash]
       ELSE FirstMatch(Tail(transactions), order, wallet_address)

\* verify_payment(order, wallet) when the provider answers with response:
\* 'for tx in transactions' over a value that is not a sequence raises, and
\* except Exception returns {'success': False, 'message': str(e)}.
VerifyResult(order, wallet_address, response) ==
  LET transactions == get_wallet_transactions(response)
  IN  IF transactions.sequence
      THEN FirstMatch(transactions.data, order, wallet_address)
      ELSE [success |-> FALSE, transaction_hash |-> NoHash]

\* verify_payment passing over the transfers whose hash an order already
\* carries.
verify_payment_SkipsRecordedHashes(order, wallet_address) ==
  {VerifyResult(order, wallet_address,
                [response EXCEPT !.data =
                   SelectSeq(@, LAMBDA tx :
                     \A o \in OrderIds : orders[o].transaction_hash # tx.hash)]) :
     response \in ProviderResponses(order.created_at - LookbackSeconds)}

\* The results verify_payment(order, wallet) can return at this moment.
verify_payment(order, wallet_address) ==
  {VerifyResult(order, wallet_address, response) :
     response \in ProviderResponses(order.created_at - LookbackSeconds)}

-----------------------------------------------------------------------------
(* Helper functions *)

\* calculate_discounted_price without max(discounted_price, 0).
calculate_discounted_price_Unclamped(price, promocode_id) ==
  IF promocode_id = 0 THEN price
  ELSE LET promocode == promocodes[promocode_id]
           discount == IF promocode.discount_type = "percentage"
                       THEN (price * promocode.discount_value) \div 100
                       ELSE promocode.discount_value
       IN  price - discount

\* calculate_discounted_price(price, promocode); promocode id 0 is None.
\* discount_value is a whole percentage, or an amount in SUN.
calculate_discounted_price(price, promocode_id) ==
  IF promocode_id = 0 THEN price
  ELSE LET promocode == promocodes[promocode_id]
           discount == IF promocode.discount_type = "percentage"
                       THEN (price * promocode.discount_value) \div 100
                       ELSE promocode.discount_value
           discounted_price == price - discount
       IN  IF discounted_price > 0 THEN discounted_price ELSE 0

\* validate_promocode(code, product_id, user_id): the code is looked up by
\* code and is_active; a code outside PromoIds is not found.
validate_promocode(code, product_id, user_id) ==
  IF code \notin PromoIds \/ ~promocodes[code].is_active
  THEN [valid |-> FALSE, message |-> "not found", promocode |-> 0]
  ELSE LET promocode == promocodes[code] IN
    IF promocode.valid_from # Null /\ now < promocode.valid_from
    THEN [valid |-> FALSE, message |-> "not active yet", promocode |-> 0]
    ELSE IF promocode.valid_until # Null /\ now > promocode.valid_until
    THEN [valid |-> FALSE, message |-> "expired", promocode |-> 0]
    ELSE IF promocode.usage_limit > 0 /\ promocode.used_count >= promocode.usage_limit
    THEN [valid |-> FALSE, message |-> "already used", promocode |-> 0]
    ELSE IF promocode.product_id # 0 /\ promocode.product_id # product_id
    THEN [valid |-> FALSE, message |-> "wrong product", promocode |-> 0]
    ELSE IF \E o \in OrderIds : /\ orders[o].user_id = user_id
                                /\ orders[o].promocode_id = code
                                /\ orders[o].status = "paid"
    THEN [valid |-> FALSE, message |-> "used by you", promocode |-> 0]
    ELSE [valid |-> TRUE, message |-> "", promocode |-> code]

\* can_user_get_trial without the count over all products.
can_user_get_trial_ThisProductOnly(user_id, product_id) ==
  LET trial_orders == Cardinality({o \in OrderIds : /\ orders[o].user_id = user_id
                                                   /\ orders[o].product_id = product_id
                                                   /\ orders[o].status = "trial"})
  IN  IF trial_orders > 0 THEN FALSE ELSE TRUE

can_user_get_trial(user_id, product_id) ==
  LET trial_orders == Cardinality({o \in OrderIds : /\ orders[o].user_id = user_id
                                                   /\ orders[o].product_id = product_id
                                                   /\ orders[o].status = "trial"})
      user_trials == Cardinality({o \in OrderIds : /\ orders[o].user_id = user_id
                                                  /\ orders[o].status = "trial"})
  IN  IF trial_orders > 0 THEN FALSE
      ELSE IF user_trials >= products[product_id].max_trial_per_user THEN FALSE
      ELSE TRUE

-----------------------------------------------------------------------------
(* The settlement write, the same code at its four call sites *)

Snapshot(o) == [status |-> orders[o].status, transaction_hash |-> orders[o].transaction_hash]

NoSnapshot == [status |-> "none", transaction_hash |-> NoHash]

PendingSnapshot == [status |-> "pending", transaction_hash |-> NoHash]

NoResult == [success |-> FALSE, transaction_hash |-> NoHash]

\* order.status = 'paid'; order.transaction_hash = hash, flushed as an UPDATE
\* of the columns that differ from the row the session loaded.
OrderPaid(row, snap, hash) ==
  [row EXCEPT !.status = IF snap.status # "paid" THEN "paid" ELSE @,
              !.transaction_hash = IF snap.transaction_hash # hash THEN hash ELSE @]

\* order.status = 'expired', flushed the same way.
OrderExpired(row, snap) ==
  [row EXCEPT !.status = IF snap.status # "expired" THEN "expired" ELSE @]

\* NewUserProduct with expires_at counted from the settlement, not taken from
\* the order.
NewUserProductFromNow(o, is_trial) ==
  [user_id |-> orders[o].user_id,
   product_id |-> orders[o].product_id,
   order_id |-> o,
   expires_at |-> now + products[orders[o].product_id].subscription_days * DaySeconds,
   is_active |-> TRUE,
   is_trial |-> is_trial]

\* UserProduct(user_id=order.user_id, product_id=order.product_id,
\*             order_id=order.id, expires_at=order.expires_at, is_active=True)
NewUserProduct(o, is_trial) ==
  [user_id |-> orders[o].user_id,
   product_id |-> orders[o].product_id,
   order_id |-> o,
   expires_at |-> orders[o].expires_at,
   is_active |-> TRUE,
   is_trial |-> is_trial]

\* StockAfter without the test product.quantity > 0.
StockAfterUnguarded(quantity, order_quantity) == quantity - order_quantity

\* if product.quantity > 0: product.quantity -= order.quantity
StockAfter(quantity, order_quantity) ==
  IF quantity > 0 THEN quantity - order_quantity ELSE quantity

\* PromoAfter counting a use only while used_count is below usage_limit.
PromoAfterUpToLimit(promocode_id) ==
  IF /\ promocode_id # 0
     /\ \/ promocodes[promocode_id].usage_limit = 0
        \/ promocodes[promocode_id].used_count < promocodes[promocode_id].usage_limit
  THEN [promocodes EXCEPT ![promocode_id].used_count = @ + 1]
  ELSE promocodes

\* if order.promocode_id: promocode.used_count += 1 (the promo codes of the
\* model are never deleted, so Promocode.query.get finds the row)
PromoAfter(promocode_id) ==
  IF promocode_id # 0
  THEN [promocodes EXCEPT ![promocode_id].used_count = @ + 1]
  ELSE promocodes

\* The whole write of one settlement and its db.session.commit().
ApplySettlement(o, snap, hash) ==
  /\ orders' = [orders EXCEPT ![o] = OrderPaid(@, snap, hash)]
  /\ userProducts' = Append(userProducts, NewUserProduct(o, FALSE))
  /\ products' = [products EXCEPT ![orders[o].product_id].quantity =
                     StockAfter(@, orders[o].quantity)]
  /\ promocodes' = PromoAfter(orders[o].promocode_id)

-----------------------------------------------------------------------------
(* Request threads *)

Idle ==
  [kind |-> "idle", pc |-> "idle", order |-> 0, user |-> 0, product |-> 0,
   snap |-> NoSnapshot, late |-> FALSE]

Late(o) == orders[o].payment_expires_at # Null /\ now > orders[o].payment_expires_at

\* The first lines of check_payment_status and confirm_payment: load the
\* caller's order (any other order is a 404).
PollLoad(s, o) ==
  /\ reqs[s].kind = "idle"
  /\ nreq < MaxRequests
  /\ o \in OrderIds
  /\ reqs' = [reqs EXCEPT ![s] =
       [kind |-> "poll", pc |-> "verify", order |-> o, user |-> orders[o].user_id,
        product |-> orders[o].product_id, snap |-> Snapshot(o), late |-> Late(o)]]
  /\ nreq' = nreq + 1
  /\ UNCHANGED <<now, store, chain, mon, startup, telegram, updated>>

\* check_payment_status and confirm_payment run the same statements on the
\* store and differ in the response only.
CheckPaymentStatus(s, o) == PollLoad(s, o)

ConfirmPayment(s, o) == PollLoad(s, o)

\* The handler is blocked in verify_payment's HTTP call.
IsPoll(s) == reqs[s].kind = "poll" /\ reqs[s].pc = "verify"

\* result = verify_payment(order, CRYPTO_WALLET) returns with the provider's
\* answer of this moment, and the handler runs on to its commit.
\* if result['success']: ... db.session.commit()
PollSettle(s) ==
  /\ IsPoll(s)
  /\ \E r \in verify_payment(orders[reqs[s].order], CRYPTO_WALLET) :
       /\ r.success
       /\ ApplySettlement(reqs[s].order, reqs[s].snap, r.transaction_hash)
  /\ reqs' = [reqs EXCEPT ![s].pc = "notify"]
  /\ UNCHANGED <<now, chain, nreq, mon, startup, telegram, updated>>

\* if order.payment_expires_at and utcnow() > order.payment_expires_at
PollExpire(s) ==
  /\ IsPoll(s)
  /\ \E r \in verify_payment(orders[reqs[s].order], CRYPTO_WALLET) : ~r.success
  /\ Late(reqs[s].order)
  /\ orders' = [orders EXCEPT ![reqs[s].order] = OrderExpired(@, reqs[s].snap)]
  /\ reqs' = [reqs EXCEPT ![s] = Idle]
  /\ UNCHANGED <<now, userProducts, products, promocodes, chain, nreq, mon, startup, telegram, updated>>

PollNotFound(s) ==
  /\ IsPoll(s)
  /\ \E r \in verify_payment(orders[reqs[s].order], CRYPTO_WALLET) : ~r.success
  /\ ~Late(reqs[s].order)
  /\ reqs' = [reqs EXCEPT ![s] = Idle]
  /\ UNCHANGED <<now, store, chain, nreq, mon, startup, telegram, updated>>

\* ManualConfirm without the test of order.status.
ManualConfirmAnyStatus(s, o) ==
  /\ reqs[s].kind = "idle"
  /\ nreq < MaxRequests
  /\ o \in OrderIds
  /\ reqs' = [reqs EXCEPT ![s] =
                [kind |-> "manual_confirm", pc |-> "finish", order |-> o,
                 user |-> orders[o].user_id, product |-> orders[o].product_id,
                 snap |-> Snapshot(o), late |-> Late(o)]]
  /\ nreq' = nreq + 1
  /\ UNCHANGED <<now, store, chain, mon, startup, telegram, updated>>

\* manual_confirm: order = Order.query.get_or_404(id); if status == 'pending'
ManualConfirm(s, o) ==
  /\ reqs[s].kind = "idle"
  /\ nreq < MaxRequests
  /\ o \in OrderIds
  /\ reqs' = IF orders[o].status = "pending"
             THEN [reqs EXCEPT ![s] =
                     [kind |-> "manual_confirm", pc |-> "finish", order |-> o,
                      user |-> orders[o].user_id, product |-> orders[o].product_id,
                      snap |-> Snapshot(o), late |-> Late(o)]]
             ELSE reqs
  /\ nreq' = nreq + 1
  /\ UNCHANGED <<now, store, chain, mon, startup, telegram, updated>>

ManualSettle(s) ==
  /\ reqs[s].kind = "manual_confirm" /\ reqs[s].pc = "finish"
  /\ ApplySettlement(reqs[s].order, reqs[s].snap, ManualHash(now))
  /\ reqs' = [reqs EXCEPT ![s].pc = "notify"]
  /\ UNCHANGED <<now, chain, nreq, mon, startup, telegram, updated>>

-----------------------------------------------------------------------------
(* Telegram notification *)

\* send_telegram_message(order, ...): the chat after the call.  Every
\* statement of the function is inside try / except Exception, so a failed
\* delivery (delivered = FALSE) is printed and the function returns.
send_telegram_message(o, delivered) ==
  IF delivered THEN telegram \cup {o} ELSE telegram

\* The call of send_telegram_message after the commit of a request handler
\* (check_payment_status, confirm_payment, manual_confirm, buy_product of a
\* trial), and the handler's response.
RequestNotify(s) ==
  /\ reqs[s].pc = "notify"
  /\ \E delivered \in BOOLEAN : telegram' = send_telegram_message(reqs[s].order, delivered)
  /\ reqs' = [reqs EXCEPT ![s] = Idle]
  /\ UNCHANGED <<now, store, chain, nreq, mon, startup, updated>>

-----------------------------------------------------------------------------
(* buy_product *)

\* POST /buy/<product_id> of a product that is not a trial: one commit.
BuyProduct(u, p, code) ==
  /\ products[p].price_type # "trial"
  /\ Len(orders) + Cardinality({s \in Slots : reqs[s].pc = "trial_order"}) < MaxOrders
  /\ code # 0 => validate_promocode(code, p, u).valid
  /\ LET promocode == IF code # 0 THEN validate_promocode(code, p, u).promocode ELSE 0
         discount_amount == IF promocode # 0
                            THEN products[p].price
                                   - calculate_discounted_price(products[p].price, promocode)
                            ELSE 0
         final_amount == products[p].price - discount_amount
     IN orders' = Append(orders,
          [user_id |-> u, product_id |-> p, promocode_id |-> promocode, quantity |-> 1,
           amount |-> final_amount, original_amount |-> products[p].price,
           discount_amount |-> discount_amount, payment_type |-> "usdt_trc20",
           status |-> "pending", transaction_hash |-> NoHash,
           expires_at |-> IF products[p].price_type = "subscription"
                          THEN now + products[p].subscription_days * DaySeconds
                          ELSE Null,
           payment_expires_at |-> now + PAYMENT_TIMEOUT,
           created_at |-> now])
  /\ UNCHANGED <<now, userProducts, products, promocodes, chain, reqs, nreq, mon, startup, telegram, updated>>

\* buy_product of a trial product: the eligibility check (a user who is not
\* eligible is redirected to the product page) ...
BuyTrialCheck(s, u, p) ==
  /\ reqs[s].kind = "idle"
  /\ nreq < MaxRequests
  /\ products[p].price_type = "trial"
  /\ IF can_user_get_trial(u, p)
     THEN /\ Len(orders) + Cardinality({t \in Slots : reqs[t].pc = "trial_order"}) < MaxOrders
          /\ reqs' = [reqs EXCEPT ![s] =
               [kind |-> "buy_trial", pc |-> "trial_order", order |-> 0, user |-> u,
                product |-> p, snap |-> NoSnapshot, late |-> FALSE]]
     ELSE reqs' = reqs
  /\ nreq' = nreq + 1
  /\ UNCHANGED <<now, store, chain, mon, startup, telegram, updated>>

\* ... the commit of the order with status 'trial' ...
BuyTrialOrder(s) ==
  /\ reqs[s].kind = "buy_trial" /\ reqs[s].pc = "trial_order"
  /\ orders' = Append(orders,
       [user_id |-> reqs[s].user, product_id |-> reqs[s].product, promocode_id |-> 0,
        quantity |-> 1, amount |-> 0, original_amount |-> 0, discount_amount |-> 0,
        payment_type |-> "trial", status |-> "trial", transaction_hash |-> NoHash,
        expires_at |-> now + products[reqs[s].product].trial_days * DaySeconds,
        payment_expires_at |-> Null, created_at |-> now])
  /\ reqs' = [reqs EXCEPT ![s].pc = "trial_grant", ![s].order = Len(orders) + 1]
  /\ UNCHANGED <<now, userProducts, products, promocodes, chain, nreq, mon, startup, telegram, updated>>

\* ... and the second commit, of the UserProduct.
BuyTrialGrant(s) ==
  /\ reqs[s].kind = "buy_trial" /\ reqs[s].pc = "trial_grant"
  /\ userProducts' = Append(userProducts, NewUserProduct(reqs[s].order, TRUE))
  /\ reqs' = [reqs EXCEPT ![s].pc = "notify"]
  /\ UNCHANGED <<now, orders, products, promocodes, chain, nreq, mon, startup, telegram, updated>>

-----------------------------------------------------------------------------
(* check_subscriptions *)

\* check_subscriptions that selects on expires_at alone.
check_subscriptions_IgnoresActive(rows, t) ==
  LET expired_products ==
        {i \in 1 .. Len(rows) : rows[i].expires_at # Null /\ rows[i].expires_at < t}
  IN  [rows |-> [i \in 1 .. Len(rows) |->
                   IF i \in expired_products THEN [rows[i] EXCEPT !.is_active = FALSE]
                   ELSE rows[i]],
       updated |-> Cardinality(expired_products)]

\* The table user_product and the response of check_subscriptions run at
\* time t: a NULL expires_at is not < t in SQL.
check_subscriptions(rows, t) ==
  LET expired_products ==
        {i \in 1 .. Len(rows) : /\ rows[i].expires_at # Null
                                 /\ rows[i].expires_at < t
                                 /\ rows[i].is_active}
  IN  [rows |-> [i \in 1 .. Len(rows) |->
                   IF i \in expired_products THEN [rows[i] EXCEPT !.is_active = FALSE]
                   ELSE rows[i]],
       updated |-> Cardinality(expired_products)]

\* POST /api/check_subscriptions
CheckSubscriptions ==
  /\ userProducts' = check_subscriptions(userProducts, now).rows
  /\ updated' = check_subscriptions(userProducts, now).updated
  /\ UNCHANGED <<now, orders, products, promocodes, chain, reqs, nreq, mon, startup, telegram>>

-----------------------------------------------------------------------------
(* Environment: the clock and the provider *)

Tick ==
  /\ now + TimeStep <= MaxTime
  /\ now' = now + TimeStep
  /\ UNCHANGED <<store, chain, reqs, nreq, mon, startup, telegram, updated>>

\* A USDT transfer of 10 USDT to toAddress shows up at the provider.
Publish(toAddress) ==
  /\ Len(chain) < MaxTx
  /\ chain' = <<[tokenAbbr |-> "USDT", amount |-> 10 * SunPerUsdt, toAddress |-> toAddress,
                 confirmed |-> TRUE, hash |-> TxHash(Len(chain) + 1),
                 timestamp |-> now]>> \o chain
  /\ UNCHANGED <<now, store, reqs, nreq, mon, startup, telegram, updated>>

-----------------------------------------------------------------------------
(* TronPaymentVerifier.start_payment_monitor.monitor *)

NoLoop == [pc |-> "none", queue |-> <<>>, snap |-> NoSnapshot, committed |-> FALSE]

LoopAt(pc) == [NoLoop EXCEPT !.pc = pc]

\* The session's view of the next order of pending_orders: the row loaded by
\* the query, or the row refreshed after a commit expired it.
NextSnapshot(queue, committed, rows) ==
  IF queue = <<>> THEN NoSnapshot
  ELSE IF committed
       THEN [status |-> rows[Head(queue)].status,
             transaction_hash |-> rows[Head(queue)].transaction_hash]
       ELSE PendingSnapshot

RECURSIVE PendingOrders(_)
PendingOrders(n) ==
  IF n = 0 THEN <<>>
  ELSE IF /\ orders[n].status = "pending"
          /\ orders[n].payment_expires_at # Null
          /\ orders[n].payment_expires_at > now
       THEN Append(PendingOrders(n - 1), n)
       ELSE PendingOrders(n - 1)

\* The position after the for loop is left: the last commit and the sleep.
AfterOrder(m, queue, committed, rows) ==
  IF queue = <<>> THEN LoopAt("sleep")
  ELSE [pc |-> "verify", queue |-> queue, snap |-> NextSnapshot(queue, committed, rows),
        committed |-> committed]

\* MonitorSelect without the filter payment_expires_at > utcnow().
MonitorSelectAllPending(m) ==
  /\ mon[m].pc = "select"
  /\ mon' = [mon EXCEPT ![m] =
       AfterOrder(m, SelectSeq([o \in OrderIds |-> o],
                               LAMBDA o : orders[o].status = "pending"),
                  FALSE, orders)]
  /\ UNCHANGED <<now, store, chain, reqs, nreq, startup, telegram, updated>>

\* MonitorSettle whose commit is lost: the loop goes on to the next order
\* with nothing written.
MonitorSettleLosesCommit(m) ==
  /\ mon[m].pc = "verify"
  /\ \E r \in verify_payment(orders[Head(mon[m].queue)], CRYPTO_WALLET) : r.success
  /\ mon' = [mon EXCEPT ![m] = AfterOrder(m, Tail(@.queue), @.committed, orders)]
  /\ UNCHANGED <<now, store, chain, reqs, nreq, startup, telegram, updated>>

\* pending_orders = Order.query.filter(status == 'pending', payment_expires_at > utcnow())
MonitorSelect(m) ==
  /\ mon[m].pc = "select"
  /\ mon' = [mon EXCEPT ![m] = AfterOrder(m, PendingOrders(Len(orders)), FALSE, orders)]
  /\ UNCHANGED <<now, store, chain, reqs, nreq, startup, telegram, updated>>

\* result = verify_payment(order, CRYPTO_WALLET) returns without success:
\* the for loop goes on to the next order.
MonitorSkip(m) ==
  /\ mon[m].pc = "verify"
  /\ \E r \in verify_payment(orders[Head(mon[m].queue)], CRYPTO_WALLET) : ~r.success
  /\ mon' = [mon EXCEPT ![m] = AfterOrder(m, Tail(@.queue), @.committed, orders)]
  /\ UNCHANGED <<now, store, chain, reqs, nreq, startup, telegram, updated>>

\* if result['success']: ... db.session.commit()
MonitorSettle(m) ==
  /\ mon[m].pc = "verify"
  /\ \E r \in verify_payment(orders[Head(mon[m].queue)], CRYPTO_WALLET) :
       /\ r.success
       /\ ApplySettlement(Head(mon[m].queue), mon[m].snap, r.transaction_hash)
  /\ mon' = [mon EXCEPT ![m].pc = "notify", ![m].committed = TRUE]
  /\ UNCHANGED <<now, chain, reqs, nreq, startup, telegram, updated>>

\* MonitorNotify with a failed delivery raised into the loop's except clause.
MonitorNotifyRaises(m) ==
  /\ mon[m].pc = "notify"
  /\ \E delivered \in BOOLEAN :
       /\ telegram' = send_telegram_message(Head(mon[m].queue), delivered)
       /\ mon' = [mon EXCEPT ![m] = IF delivered
                                    THEN AfterOrder(m, Tail(@.queue), TRUE, orders)
                                    ELSE LoopAt("backoff")]
  /\ UNCHANGED <<now, store, chain, reqs, nreq, startup, updated>>

\* send_telegram_message(order, order.user, product, order.form_data) after
\* the commit; the for loop goes on to the next order.
MonitorNotify(m) ==
  /\ mon[m].pc = "notify"
  /\ \E delivered \in BOOLEAN :
       telegram' = send_telegram_message(Head(mon[m].queue), delivered)
  /\ mon' = [mon EXCEPT ![m] = AfterOrder(m, Tail(@.queue), TRUE, orders)]
  /\ UNCHANGED <<now, store, chain, reqs, nreq, startup, updated>>

\* time.sleep(PAYMENT_CHECK_INTERVAL) returns
MonitorWake(m) ==
  /\ mon[m].pc = "sleep"
  /\ mon' = [mon EXCEPT ![m] = LoopAt("select")]
  /\ UNCHANGED <<now, store, chain, reqs, nreq, startup, telegram, updated>>

\* except Exception: the query or the commit raised; nothing is committed.
MonitorFail(m) ==
  /\ mon[m].pc \in {"select", "verify"}
  /\ mon' = [mon EXCEPT ![m] = LoopAt("backoff")]
  /\ UNCHANGED <<now, store, chain, reqs, nreq, startup, telegram, updated>>

\* MonitorRetry with the loop ending in its except clause.
MonitorRetryEndsLoop(m) ==
  /\ mon[m].pc = "backoff"
  /\ mon' = [mon EXCEPT ![m] = LoopAt("ended")]
  /\ UNCHANGED <<now, store, chain, reqs, nreq, startup, telegram, updated>>

\* time.sleep(30) returns and while True goes round
MonitorRetry(m) ==
  /\ mon[m].pc = "backoff"
  /\ mon' = [mon EXCEPT ![m] = LoopAt("select")]
  /\ UNCHANGED <<now, store, chain, reqs, nreq, startup, telegram, updated>>

-----------------------------------------------------------------------------
(* Start-up of the monitor *)

\* if __name__ == '__main__': Thread(target=start_payment_monitor).start()
MainStart ==
  /\ ~main_started
  /\ main_started' = TRUE
  /\ pending_starts' = pending_starts + 1
  /\ UNCHANGED <<now, store, chain, reqs, nreq, mon, monitor_started, hook, telegram, updated>>

\* start_payment_monitor_once: if not _monitor_started
HookCheck(s) ==
  /\ hook[s] = "idle"
  /\ ~monitor_started
  /\ hook' = [hook EXCEPT ![s] = "checked"]
  /\ UNCHANGED <<now, store, chain, reqs, nreq, mon, monitor_started, main_started,
                 pending_starts, telegram, updated>>

\* _monitor_started = True; Thread(target=start_payment_monitor).start()
HookStart(s) ==
  /\ hook[s] = "checked"
  /\ monitor_started' = TRUE
  /\ pending_starts' = pending_starts + 1
  /\ hook' = [hook EXCEPT ![s] = "idle"]
  /\ UNCHANGED <<now, store, chain, reqs, nreq, mon, main_started, telegram, updated>>

\* start_payment_monitor(): Thread(target=monitor, daemon=True).start()
StartPaymentMonitor(m) ==
  /\ pending_starts > 0
  /\ mon[m].pc = "none"
  /\ \A k \in Loops : k < m => mon[k].pc # "none"
  /\ pending_starts' = pending_starts - 1
  /\ mon' = [mon EXCEPT ![m] = LoopAt("select")]
  /\ UNCHANGED <<now, store, chain, reqs, nreq, monitor_started, main_started, hook, telegram, updated>>

RunningLoops == {m \in Loops : mon[m].pc # "none"}

-----------------------------------------------------------------------------
(* The store with one monitor running *)

Catalog ==
  [p \in ProductIds |->
     IF p = 1
     THEN [price |-> 10 * SunPerUsdt, price_type |-> "subscription", subscription_days |-> 30,
           trial_days |-> 7, quantity |-> 2, max_trial_per_user |-> 1]
     ELSE [price |-> 0, price_type |-> "trial", subscription_days |-> 30,
           trial_days |-> 7, quantity |-> 1, max_trial_per_user |-> 1]]

Codes ==
  [c \in PromoIds |->
     [discount_type |-> "percentage", discount_value |-> 10, product_id |-> 0,
      usage_limit |-> 1, used_count |-> 0, valid_from |-> 0, valid_until |-> Null,
      is_active |-> TRUE]]

Init ==
  /\ now = 0
  /\ orders = <<>>
  /\ userProducts = <<>>
  /\ products = Catalog
  /\ promocodes = Codes
  /\ chain = <<>>
  /\ reqs = [s \in Slots |-> Idle]
  /\ nreq = 0
  /\ mon = [m \in Loops |-> IF m = 1 THEN LoopAt("select") ELSE NoLoop]
  /\ monitor_started = TRUE
  /\ main_started = FALSE
  /\ hook = [s \in Slots |-> "idle"]
  /\ pending_starts = 0
  /\ telegram = {}
  /\ updated = Null

MonitorStep(m) ==
  \/ MonitorSelect(m)
  \/ MonitorSkip(m)
  \/ MonitorSettle(m)
  \/ MonitorNotify(m)
  \/ MonitorWake(m)

\* A thread is between its commit and the return of send_telegram_message.
\* The call reads the store and writes only the chat, so in the store's
\* specification it is scheduled right after the commit; NotifySpec below
\* interleaves it with every other thread.
NotifyPending ==
  \/ \E s \in Slots : reqs[s].pc = "notify"
  \/ \E m \in Loops : mon[m].pc = "notify"

Next ==
  \/ ~NotifyPending /\ Tick
  \/ ~NotifyPending /\ Publish(Lower(CRYPTO_WALLET))
  \/ /\ ~NotifyPending
     /\ \E u \in Users, p \in ProductIds, code \in {0} \cup PromoIds : BuyProduct(u, p, code)
  \/ ~NotifyPending /\ \E s \in Slots, u \in Users, p \in ProductIds : BuyTrialCheck(s, u, p)
  \/ ~NotifyPending /\ \E s \in Slots : BuyTrialOrder(s)
  \/ ~NotifyPending /\ \E s \in Slots : BuyTrialGrant(s)
  \/ ~NotifyPending /\ \E s \in Slots, o \in OrderIds : CheckPaymentStatus(s, o)
  \/ ~NotifyPending /\ \E s \in Slots, o \in OrderIds : ConfirmPayment(s, o)
  \/ ~NotifyPending /\ \E s \in Slots : PollSettle(s)
  \/ ~NotifyPending /\ \E s \in Slots : PollExpire(s)
  \/ ~NotifyPending /\ \E s \in Slots : PollNotFound(s)
  \/ ~NotifyPending /\ \E s \in Slots, o \in OrderIds : ManualConfirm(s, o)
  \/ ~NotifyPending /\ \E s \in Slots : ManualSettle(s)
  \/ \E s \in Slots : RequestNotify(s)
  \/ \E m \in Loops : MonitorNotify(m)
  \/ /\ ~NotifyPending
     /\ \E m \in Loops : MonitorSelect(m) \/ MonitorSkip(m) \/ MonitorSettle(m) \/ MonitorWake(m)

Spec == Init /\ [][Next]_vars

-----------------------------------------------------------------------------
(* The start-up and the life of the monitor threads, over one pending order *)

FirstOrder ==
  [user_id |-> 1, product_id |-> 1, promocode_id |-> 0, quantity |-> 1,
   amount |-> Catalog[1].price, original_amount |-> Catalog[1].price,
   discount_amount |-> 0, payment_type |-> "usdt_trc20", status |-> "pending",
   transaction_hash |-> NoHash,
   expires_at |-> Catalog[1].subscription_days * DaySeconds,
   payment_expires_at |-> PAYMENT_TIMEOUT, created_at |-> 0]

MonInit ==
  /\ now = 0
  /\ orders = <<FirstOrder>>
  /\ userProducts = <<>>
  /\ products = Catalog
  /\ promocodes = Codes
  /\ chain = <<>>
  /\ reqs = [s \in Slots |-> Idle]
  /\ nreq = 0
  /\ mon = [m \in Loops |-> NoLoop]
  /\ monitor_started = FALSE
  /\ main_started = FALSE
  /\ hook = [s \in Slots |-> "idle"]
  /\ pending_starts = 0
  /\ telegram = {}
  /\ updated = Null

MonNext ==
  \/ MainStart
  \/ \E s \in Slots : HookCheck(s)
  \/ \E s \in Slots : HookStart(s)
  \/ \E m \in Loops : StartPaymentMonitor(m)
  \/ Publish(Lower(CRYPTO_WALLET))
  \/ \E m \in Loops : MonitorStep(m)
  \/ \E m \in Loops : MonitorFail(m)
  \/ \E m \in Loops : MonitorRetry(m)

MonSpec ==
  /\ MonInit
  /\ [][MonNext]_vars
  /\ \A m \in Loops : WF_vars(MonitorStep(m) \/ MonitorRetry(m))

-----------------------------------------------------------------------------
(* One pending order with every settlement call site and its notification  *)
(* interleaved with the other threads                                      *)

NotifyInit ==
  /\ now = 0
  /\ orders = <<FirstOrder>>
  /\ userProducts = <<>>
  /\ products = Catalog
  /\ promocodes = Codes
  /\ chain = <<>>
  /\ reqs = [s \in Slots |-> Idle]
  /\ nreq = 0
  /\ mon = [m \in Loops |-> IF m = 1 THEN LoopAt("select") ELSE NoLoop]
  /\ monitor_started = TRUE
  /\ main_started = FALSE
  /\ hook = [s \in Slots |-> "idle"]
  /\ pending_starts = 0
  /\ telegram = {}
  /\ updated = Null

NotifyNext ==
  \/ Tick
  \/ Publish(Lower(CRYPTO_WALLET))
  \/ \E s \in Slots, u \in Users, p \in ProductIds : BuyTrialCheck(s, u, p)
  \/ \E s \in Slots : BuyTrialOrder(s)
  \/ \E s \in Slots : BuyTrialGrant(s)
  \/ \E s \in Slots, o \in OrderIds : CheckPaymentStatus(s, o)
  \/ \E s \in Slots, o \in OrderIds : ConfirmPayment(s, o)
  \/ \E s \in Slots : PollSettle(s)
  \/ \E s \in Slots : PollExpire(s)
  \/ \E s \in Slots : PollNotFound(s)
  \/ \E s \in Slots, o \in OrderIds : ManualConfirm(s, o)
  \/ \E s \in Slots : ManualSettle(s)
  \/ \E s \in Slots : RequestNotify(s)
  \/ \E m \in Loops : MonitorStep(m)

NotifySpec == NotifyInit /\ [][NotifyNext]_vars

-----------------------------------------------------------------------------
(* One pending order of a product whose stock the admin form has set       *)

\* product.quantity = int(request.form.get('quantity', 1)): any integer.
StockValues == {0 - 1, 0, 1, 2}

StockInit ==
  /\ now = 0
  /\ orders = <<FirstOrder>>
  /\ userProducts = <<>>
  /\ \E quantity \in StockValues :
       products = [Catalog EXCEPT ![FirstOrder.product_id].quantity = quantity]
  /\ promocodes = Codes
  /\ chain = <<>>
  /\ reqs = [s \in Slots |-> Idle]
  /\ nreq = 0
  /\ mon = [m \in Loops |-> IF m = 1 THEN LoopAt("select") ELSE NoLoop]
  /\ monitor_started = TRUE
  /\ main_started = FALSE
  /\ hook = [s \in Slots |-> "idle"]
  /\ pending_starts = 0
  /\ telegram = {}
  /\ updated = Null

StockNext ==
  \/ Tick
  \/ Publish(Lower(CRYPTO_WALLET))
  \/ \E s \in Slots, o \in OrderIds : CheckPaymentStatus(s, o)
  \/ \E s \in Slots, o \in OrderIds : ConfirmPayment(s, o)
  \/ \E s \in Slots : PollSettle(s)
  \/ \E s \in Slots : PollExpire(s)
  \/ \E s \in Slots : PollNotFound(s)
  \/ \E s \in Slots, o \in OrderIds : ManualConfirm(s, o)
  \/ \E s \in Slots : ManualSettle(s)
  \/ \E s \in Slots : RequestNotify(s)
  \/ \E m \in Loops : MonitorStep(m)

StockSpec == StockInit /\ [][StockNext]_vars

-----------------------------------------------------------------------------
(* Trial purchases of two users over two trial products *)

TrialUsers == 1 .. NTrialUsers

TrialCatalog(cap1, cap2) ==
  [p \in ProductIds |->
     [price |-> 0, price_type |-> "trial", subscription_days |-> 30, trial_days |-> 7,
      quantity |-> 1, max_trial_per_user |-> IF p = 1 THEN cap1 ELSE cap2]]

TrialInit ==
  /\ now = 0
  /\ orders = <<>>
  /\ userProducts = <<>>
  /\ \E cap1 \in 0 .. MaxTrialCap, cap2 \in 0 .. MaxTrialCap :
       products = TrialCatalog(cap1, cap2)
  /\ promocodes = Codes
  /\ chain = <<>>
  /\ reqs = [s \in Slots |-> Idle]
  /\ nreq = 0
  /\ mon = [m \in Loops |-> IF m = 1 THEN LoopAt("select") ELSE NoLoop]
  /\ monitor_started = TRUE
  /\ main_started = FALSE
  /\ hook = [s \in Slots |-> "idle"]
  /\ pending_starts = 0
  /\ telegram = {}
  /\ updated = Null

TrialNext ==
  \/ \E s \in Slots, u \in TrialUsers, p \in ProductIds : BuyTrialCheck(s, u, p)
  \/ \E s \in Slots : BuyTrialOrder(s)
  \/ \E s \in Slots : BuyTrialGrant(s)
  \/ \E s \in Slots : RequestNotify(s)

TrialSpec == TrialInit /\ [][TrialNext]_vars

-----------------------------------------------------------------------------
(* Order creation over the prices and promo codes the admin forms accept *)

PriceValues == {5 * SunPerUsdt, 10 * SunPerUsdt}

PercentValues == {0, 10, 50, 100, 150}

FixedValues == {3 * SunPerUsdt, 10 * SunPerUsdt, 15 * SunPerUsdt}

PriceCatalog(price1, price2) ==
  [p \in ProductIds |->
     [price |-> IF p = 1 THEN price1 ELSE price2,
      price_type |-> IF p = 1 THEN "subscription" ELSE "one_time",
      subscription_days |-> 30, trial_days |-> 7, quantity |-> 2,
      max_trial_per_user |-> 1]]

PriceCodes(discount_type, discount_value) ==
  [c \in PromoIds |->
     [discount_type |-> discount_type, discount_value |-> discount_value, product_id |-> 0,
      usage_limit |-> 0, used_count |-> 0, valid_from |-> 0, valid_until |-> Null,
      is_active |-> TRUE]]

PriceInit ==
  /\ now = 0
  /\ orders = <<>>
  /\ userProducts = <<>>
  /\ \E price1 \in PriceValues, price2 \in PriceValues :
       products = PriceCatalog(price1, price2)
  /\ \/ \E v \in PercentValues : promocodes = PriceCodes("percentage", v)
     \/ \E v \in FixedValues : promocodes = PriceCodes("fixed", v)
  /\ chain = <<>>
  /\ reqs = [s \in Slots |-> Idle]
  /\ nreq = 0
  /\ mon = [m \in Loops |-> IF m = 1 THEN LoopAt("select") ELSE NoLoop]
  /\ monitor_started = TRUE
  /\ main_started = FALSE
  /\ hook = [s \in Slots |-> "idle"]
  /\ pending_starts = 0
  /\ telegram = {}
  /\ updated = Null

PriceNext ==
  \/ Tick
  \/ \E u \in Users, p \in ProductIds, code \in {0} \cup PromoIds : BuyProduct(u, p, code)

PriceSpec == PriceInit /\ [][PriceNext]_vars

-----------------------------------------------------------------------------
(* Purchases with a promo code in every state the admin form can give it    *)

\* A code the table does not hold.
UnknownCode == 2

CodeInputs == PromoIds \cup {UnknownCode}

\* An earlier order of the user, paid with the code.
PaidWithCode(c) ==
  [FirstOrder EXCEPT !.status = "paid", !.transaction_hash = ManualHash(0),
                     !.promocode_id = c]

PromoInit ==
  /\ now = 0
  /\ \E earlier \in BOOLEAN, is_active \in BOOLEAN, product_id \in {0} \cup ProductIds,
        usage_limit \in 0 .. 2, others \in 0 .. 1, valid_from \in {0, TimeStep},
        valid_until \in {Null, 0} :
       /\ orders = IF earlier THEN <<PaidWithCode(1)>> ELSE <<>>
       /\ promocodes =
            [c \in PromoIds |->
               [discount_type |-> "percentage", discount_value |-> 10,
                product_id |-> product_id, usage_limit |-> usage_limit,
                used_count |-> others + (IF earlier THEN 1 ELSE 0),
                valid_from |-> valid_from, valid_until |-> valid_until,
                is_active |-> is_active]]
  /\ userProducts = <<>>
  /\ products = PriceCatalog(10 * SunPerUsdt, 10 * SunPerUsdt)
  /\ chain = <<>>
  /\ reqs = [s \in Slots |-> Idle]
  /\ nreq = 0
  /\ mon = [m \in Loops |-> IF m = 1 THEN LoopAt("select") ELSE NoLoop]
  /\ monitor_started = TRUE
  /\ main_started = FALSE
  /\ hook = [s \in Slots |-> "idle"]
  /\ pending_starts = 0
  /\ telegram = {}
  /\ updated = Null

PromoNext ==
  \/ Tick
  \/ \E u \in Users, p \in ProductIds, code \in {0} \cup CodeInputs : BuyProduct(u, p, code)

PromoSpec == PromoInit /\ [][PromoNext]_vars

-----------------------------------------------------------------------------
(* The matcher over the transfers the provider can report for one order *)

\* The provider lists every transfer the wallet takes part in, as sender or
\* as recipient: toAddress may be another address.
OtherWallet == [CRYPTO_WALLET EXCEPT ![34] = "k"]

TransferAmounts ==
  {989 * (FirstOrder.amount \div 1000), 99 * (FirstOrder.amount \div 100),
   FirstOrder.amount, 2 * FirstOrder.amount}

TransferAddresses == {CRYPTO_WALLET, Lower(CRYPTO_WALLET), OtherWallet}

Transfers ==
  {[tokenAbbr |-> token, amount |-> amount, toAddress |-> toAddress,
    confirmed |-> confirmed, hash |-> TxHash(1), timestamp |-> 0] :
     token \in {"USDT", "TRX"}, amount \in TransferAmounts,
     toAddress \in TransferAddresses, confirmed \in BOOLEAN}

MatchInit ==
  /\ now = 0
  /\ orders = <<FirstOrder>>
  /\ userProducts = <<>>
  /\ products = Catalog
  /\ promocodes = Codes
  /\ \E tx \in Transfers : chain = <<tx>>
  /\ reqs = [s \in Slots |-> Idle]
  /\ nreq = 0
  /\ mon = [m \in Loops |-> IF m = 1 THEN LoopAt("select") ELSE NoLoop]
  /\ monitor_started = TRUE
  /\ main_started = FALSE
  /\ hook = [s \in Slots |-> "idle"]
  /\ pending_starts = 0
  /\ telegram = {}
  /\ updated = Null

MatchNext ==
  \/ Tick
  \/ \E s \in Slots, o \in OrderIds : CheckPaymentStatus(s, o)
  \/ \E s \in Slots, o \in OrderIds : ConfirmPayment(s, o)
  \/ \E s \in Slots : PollSettle(s)
  \/ \E s \in Slots : PollExpire(s)
  \/ \E s \in Slots : PollNotFound(s)
  \/ \E s \in Slots : RequestNotify(s)
  \/ \E m \in Loops : MonitorStep(m)

MatchSpec == MatchInit /\ [][MatchNext]_vars

\* The provider reports two transfers, the newer one first; the monitor is
\* the only caller of verify_payment.
FirstMatchInit ==
  /\ now = 0
  /\ orders = <<FirstOrder>>
  /\ userProducts = <<>>
  /\ products = Catalog
  /\ promocodes = Codes
  /\ \E tx1 \in Transfers, tx2 \in Transfers :
       chain = <<[tx1 EXCEPT !.hash = TxHash(2)], tx2>>
  /\ reqs = [s \in Slots |-> Idle]
  /\ nreq = 0
  /\ mon = [m \in Loops |-> IF m = 1 THEN LoopAt("select") ELSE NoLoop]
  /\ monitor_started = TRUE
  /\ main_started = FALSE
  /\ hook = [s \in Slots |-> "idle"]
  /\ pending_starts = 0
  /\ telegram = {}
  /\ updated = Null

FirstMatchNext ==
  \/ Tick
  \/ \E m \in Loops : MonitorStep(m)

FirstMatchSpec == FirstMatchInit /\ [][FirstMatchNext]_vars

-----------------------------------------------------------------------------
(* check_subscriptions over entitlements that expire while the process runs *)

ExpiryValues == {Null, 0, TimeStep, MaxTime + TimeStep}

\* A paid order and its entitlement, both with expires_at = e.
PaidOrder(e) ==
  [FirstOrder EXCEPT !.status = "paid", !.transaction_hash = ManualHash(0),
                     !.expires_at = e]

GrantedProduct(o, e) ==
  [user_id |-> FirstOrder.user_id, product_id |-> FirstOrder.product_id, order_id |-> o,
   expires_at |-> e, is_active |-> TRUE, is_trial |-> FALSE]

SubInit ==
  /\ now = 0
  /\ \E n \in 1 .. MaxOrders : \E e \in [1 .. n -> ExpiryValues] :
       /\ orders = [o \in 1 .. n |-> PaidOrder(e[o])]
       /\ userProducts = [o \in 1 .. n |-> GrantedProduct(o, e[o])]
  /\ products = Catalog
  /\ promocodes = Codes
  /\ chain = <<>>
  /\ reqs = [s \in Slots |-> Idle]
  /\ nreq = 0
  /\ mon = [m \in Loops |-> IF m = 1 THEN LoopAt("select") ELSE NoLoop]
  /\ monitor_started = TRUE
  /\ main_started = FALSE
  /\ hook = [s \in Slots |-> "idle"]
  /\ pending_starts = 0
  /\ telegram = {}
  /\ updated = Null

SubNext ==
  \/ Tick
  \/ CheckSubscriptions

SubSpec == SubInit /\ [][SubNext]_vars

-----------------------------------------------------------------------------
(* One pending order whose entitlement can expire while the process runs    *)

\* subscription_days = int(request.form.get('subscription_days', 30))
SubscriptionDays == {0, 30}

EntitlementInit ==
  /\ now = 0
  /\ \E price_type \in {"subscription", "one_time"}, days \in SubscriptionDays :
       /\ products = [Catalog EXCEPT ![FirstOrder.product_id].price_type = price_type,
                                     ![FirstOrder.product_id].subscription_days = days]
       /\ orders = <<[FirstOrder EXCEPT !.expires_at =
                        IF price_type = "subscription" THEN days * DaySeconds ELSE Null]>>
  /\ userProducts = <<>>
  /\ promocodes = Codes
  /\ chain = <<>>
  /\ reqs = [s \in Slots |-> Idle]
  /\ nreq = 0
  /\ mon = [m \in Loops |-> IF m = 1 THEN LoopAt("select") ELSE NoLoop]
  /\ monitor_started = TRUE
  /\ main_started = FALSE
  /\ hook = [s \in Slots |-> "idle"]
  /\ pending_starts = 0
  /\ telegram = {}
  /\ updated = Null

EntitlementNext ==
  \/ StockNext
  \/ CheckSubscriptions

EntitlementSpec == EntitlementInit /\ [][EntitlementNext]_vars

-----------------------------------------------------------------------------
(* Two pending orders of the same amount, the monitor and the status polls  *)

TwoOrdersInit ==
  /\ now = 0
  /\ orders = <<FirstOrder, FirstOrder>>
  /\ userProducts = <<>>
  /\ products = Catalog
  /\ promocodes = Codes
  /\ chain = <<>>
  /\ reqs = [s \in Slots |-> Idle]
  /\ nreq = 0
  /\ mon = [m \in Loops |-> IF m = 1 THEN LoopAt("select") ELSE NoLoop]
  /\ monitor_started = TRUE
  /\ main_started = FALSE
  /\ hook = [s \in Slots |-> "idle"]
  /\ pending_starts = 0
  /\ telegram = {}
  /\ updated = Null

TwoOrdersNext ==
  \/ Tick
  \/ Publish(Lower(CRYPTO_WALLET))
  \/ \E s \in Slots, o \in OrderIds : CheckPaymentStatus(s, o)
  \/ \E s \in Slots, o \in OrderIds : ConfirmPayment(s, o)
  \/ \E s \in Slots : PollSettle(s)
  \/ \E s \in Slots : PollExpire(s)
  \/ \E s \in Slots : PollNotFound(s)
  \/ \E s \in Slots : RequestNotify(s)
  \/ \E m \in Loops : MonitorStep(m)

TwoOrdersSpec == TwoOrdersInit /\ [][TwoOrdersNext]_vars

-----------------------------------------------------------------------------
(* Purchases with a promo code of usage_limit 1, settled by the monitor     *)

CeilingInit == Init

CeilingNext ==
  \/ Tick
  \/ Publish(Lower(CRYPTO_WALLET))
  \/ \E u \in Users, p \in ProductIds, code \in {0} \cup PromoIds : BuyProduct(u, p, code)
  \/ \E m \in Loops : MonitorStep(m)

CeilingSpec == CeilingInit /\ [][CeilingNext]_vars

-----------------------------------------------------------------------------
(* The monitor alone, with a provider that answers every request            *)

\* The provider's answer for order o holds a transfer the matcher accepts.
MatchVisible(o) ==
  FirstMatch(InWindow(orders[o].created_at - LookbackSeconds), orders[o],
             CRYPTO_WALLET).success

\* One step of loop m when get_wallet_transactions always gets the provider's
\* list: verify_payment fails only when no transfer of the list matches.
ReliableStep(m) ==
  \/ MonitorSelect(m)
  \/ MonitorSkip(m) /\ ~MatchVisible(Head(mon[m].queue))
  \/ MonitorSettle(m)
  \/ MonitorNotify(m)
  \/ MonitorWake(m)

LiveInit == TwoOrdersInit

LiveNext ==
  \/ Tick
  \/ Publish(Lower(CRYPTO_WALLET))
  \/ \E m \in Loops : ReliableStep(m)

\* The loop thread is scheduled again and again, and its sleeps and HTTP
\* calls return.
LiveSpec ==
  /\ LiveInit
  /\ [][LiveNext]_vars
  /\ \A m \in Loops : WF_vars(ReliableStep(m))

-----------------------------------------------------------------------------
(* Claims *)

\* This step commits a settlement of order o: a UserProduct of o that is not
\* a trial grant is inserted.
SettlesOrder(o) ==
  /\ Len(userProducts') = Len(userProducts) + 1
  /\ userProducts'[Len(userProducts')].order_id = o
  /\ ~userProducts'[Len(userProducts')].is_trial

\* This step is the commit of the handler in slot s / of monitor loop m.
SlotCommits(s) == reqs[s].pc \in {"verify", "finish"} /\ reqs'[s].pc \in {"idle", "notify"}

LoopCommits(m) == mon[m].pc = "verify" /\ mon'[m] # mon[m] /\ userProducts' # userProducts

\* C1: of the callers that race on one pending order (each loaded it as
\* pending), at most one applies the settlement: when such a caller commits a
\* settlement, the order is still pending and has no entitlement; every
\* other caller is a no-op.
C1_OneSettlementUnderRace ==
  [][/\ \A s \in Slots :
          (reqs[s].snap.status = "pending" /\ SlotCommits(s) /\ SettlesOrder(reqs[s].order))
            => /\ orders[reqs[s].order].status = "pending"
               /\ Entitlements(reqs[s].order) = {}
     /\ \A m \in Loops :
          (LoopCommits(m) /\ mon[m].snap.status = "pending")
            => /\ orders[Head(mon[m].queue)].status = "pending"
               /\ Entitlements(Head(mon[m].queue)) = {}]_vars

\* C2: a poll that runs on an order it loaded as already paid, with a
\* matching transfer still visible, applies nothing: no UserProduct, no
\* stock decrement, no promo increment.
C2_SecondRunAppliesNothing ==
  [][\A s \in Slots :
        (/\ reqs[s].kind = "poll"
         /\ reqs[s].snap.status = "paid"
         /\ SlotCommits(s)
         /\ \E r \in verify_payment(orders[reqs[s].order], CRYPTO_WALLET) : r.success)
          => UNCHANGED <<userProducts, products, promocodes>>]_vars

\* C3: every order whose status is paid or trial is referenced by exactly
\* one UserProduct.
C3_ExactlyOneEntitlement ==
  \A o \in OrderIds :
    orders[o].status \in {"paid", "trial"} => Cardinality(Entitlements(o)) = 1

\* C4: a settlement attempt on an order that is already expired (the caller
\* loaded it as expired and it still is) is ignored: the order stays expired
\* and no entitlement, stock quantity or promo counter changes, whatever
\* transfer is visible.
C4_ExpiredIsIgnored ==
  [][/\ \A s \in Slots :
          (/\ reqs[s].snap.status = "expired"
           /\ orders[reqs[s].order].status = "expired"
           /\ SlotCommits(s))
            => /\ orders'[reqs[s].order].status = "expired"
               /\ UNCHANGED <<userProducts, products, promocodes>>
     /\ \A m \in Loops :
          (/\ mon[m].pc = "verify"
           /\ mon[m].snap.status = "expired"
           /\ orders[Head(mon[m].queue)].status = "expired"
           /\ mon'[m] # mon[m])
            => /\ orders'[Head(mon[m].queue)].status = "expired"
               /\ UNCHANGED <<userProducts, products, promocodes>>]_vars

\* C5: once an order is paid its status never changes again.
C5_PaidIsFinal ==
  [][\A o \in OrderIds : orders[o].status = "paid" => orders'[o].status = "paid"]_vars

\* C6: an order has a transaction_hash if and only if its status is paid.
C6_HashIffPaid ==
  \A o \in OrderIds : (orders[o].transaction_hash # NoHash) <=> (orders[o].status = "paid")

\* C7: a status poll that read a pending order after its payment_expires_at
\* leaves it expired, whether or not a matching transfer is visible.
C7_LatePollExpires ==
  [][\A s \in Slots :
        (/\ reqs[s].kind = "poll"
         /\ reqs[s].late
         /\ reqs[s].snap.status = "pending"
         /\ orders[reqs[s].order].status = "pending"
         /\ SlotCommits(s))
          => orders'[reqs[s].order].status = "expired"]_vars

\* C8: the settlement write is all-or-nothing: a step that commits the
\* entitlement of a settlement leaves the order paid with a transaction
\* hash, the stock decremented when it was positive and the promo counted;
\* and no step changes stock or promo counters without such an entitlement.
C8_SettlementAllOrNothing ==
  [][/\ \A o \in OrderIds :
          SettlesOrder(o)
            => /\ orders'[o].status = "paid"
               /\ orders'[o].transaction_hash # NoHash
               /\ LET p == orders[o].product_id IN
                    products[p].quantity > 0
                      => products'[p].quantity = products[p].quantity - orders[o].quantity
               /\ LET c == orders[o].promocode_id IN
                    c # 0 => promocodes'[c].used_count = promocodes[c].used_count + 1
     /\ (\A o \in OrderIds : ~SettlesOrder(o))
          => /\ products' = products
             /\ promocodes' = promocodes
             /\ \A o \in OrderIds :
                  orders'[o].status = "paid" => orders[o].status = "paid"]_vars

\* C9: at most one payment-monitor loop runs in the process.
C9_SingleMonitorLoop == Cardinality(RunningLoops) <= 1

\* C10: after any failing iteration of a monitor loop (the loop is in the
\* fallback sleep of its except clause) a further iteration starts.
C10_LoopSurvivesErrors ==
  \A m \in Loops : (mon[m].pc = "backoff") ~> (mon[m].pc = "select")

\* A loop is in the fallback sleep after an exception of its iteration.
C10_Witness == \E m \in Loops : mon[m].pc = "backoff"

\* C11: a failed delivery of the Telegram notification is not propagated,
\* not retried and rolls nothing back: the step in which
\* send_telegram_message returns, delivered or not, leaves orders,
\* entitlements, stock and promo counters unchanged and lets the caller go on
\* (the request handler returns its response, the monitor goes on to the
\* next order or to its sleep); and a notification is emitted only for an
\* order whose settlement is already committed.
C11_NotificationFailureContained ==
  [][/\ \A s \in Slots :
          (reqs[s].pc = "notify" /\ reqs'[s] # reqs[s])
            => /\ UNCHANGED store
               /\ reqs'[s] = Idle
               /\ Entitlements(reqs[s].order) # {}
     /\ \A m \in Loops :
          (mon[m].pc = "notify" /\ mon'[m] # mon[m])
            => /\ UNCHANGED store
               /\ mon'[m].pc \in {"verify", "sleep"}
               /\ Entitlements(Head(mon[m].queue)) # {}
     /\ \A o \in OrderIds :
          (o \in telegram' /\ o \notin telegram) => Entitlements(o) # {}
     /\ telegram' # telegram => UNCHANGED store]_vars

\* A settlement is committed, its notification failed, and every caller has
\* gone on.
C11_Witness ==
  \E o \in OrderIds :
    /\ orders[o].status = "paid"
    /\ Entitlements(o) # {}
    /\ o \notin telegram
    /\ ~NotifyPending

\* C12: manual_confirm on an order it reads as pending settles it whatever
\* the provider shows: status paid, transaction_hash MANUAL-<timestamp>, one
\* entitlement created, stock decremented when positive, promo counted; on
\* an order it reads in any other status it changes no order, entitlement,
\* stock quantity or promo counter and writes nothing later.
C12_ManualConfirmFrame ==
  [][\A s \in Slots :
        /\ (reqs[s].kind = "manual_confirm" /\ reqs[s].pc = "finish" /\ reqs'[s] # reqs[s])
             => LET o == reqs[s].order
                    p == orders[o].product_id
                    c == orders[o].promocode_id
                IN  /\ reqs[s].snap.status = "pending"
                    /\ orders'[o].status = "paid"
                    /\ orders'[o].transaction_hash = ManualHash(now)
                    /\ SettlesOrder(o)
                    /\ products[p].quantity > 0
                         => products'[p].quantity = products[p].quantity - orders[o].quantity
                    /\ c # 0 => promocodes'[c].used_count = promocodes[c].used_count + 1
        /\ \A o \in OrderIds :
             (ManualConfirm(s, o) /\ orders[o].status # "pending")
               => UNCHANGED store /\ reqs'[s] = Idle]_vars

\* An order with a promo code settled by manual_confirm while the provider
\* shows no transfer at all.
C12_Witness ==
  \E o \in OrderIds :
    /\ orders[o].status = "paid"
    /\ orders[o].transaction_hash.kind = "manual"
    /\ orders[o].promocode_id # 0
    /\ Entitlements(o) # {}
    /\ chain = <<>>

\* The user's orders with status trial, of one product and of all products.
TrialOrdersOf(u, p) ==
  {o \in OrderIds : orders[o].status = "trial" /\ orders[o].user_id = u
                     /\ orders[o].product_id = p}

TrialOrdersOfUser(u) ==
  {o \in OrderIds : orders[o].status = "trial" /\ orders[o].user_id = u}

\* C13: can_user_get_trial(user, product) is false when the user has a
\* trial-status order of that product, false when the number of the user's
\* trial-status orders over all products is at least the product's
\* max_trial_per_user, and true in every other case.
C13_TrialEligibility ==
  \A u \in TrialUsers, p \in ProductIds :
    /\ TrialOrdersOf(u, p) # {} => ~can_user_get_trial(u, p)
    /\ Cardinality(TrialOrdersOfUser(u)) >= products[p].max_trial_per_user
         => ~can_user_get_trial(u, p)
    /\ (/\ TrialOrdersOf(u, p) = {}
        /\ Cardinality(TrialOrdersOfUser(u)) < products[p].max_trial_per_user)
         => can_user_get_trial(u, p)

\* User 1 holds a trial of product 1 and is refused product 1 and, by the cap
\* of product 2, product 2; user 2, with no trial order, is accepted.
C13_Witness ==
  /\ TrialOrdersOf(1, 1) # {}
  /\ TrialOrdersOf(1, 2) = {}
  /\ TrialOrdersOfUser(2) = {}
  /\ products[2].max_trial_per_user = 1
  /\ ~can_user_get_trial(1, 1)
  /\ ~can_user_get_trial(1, 2)
  /\ can_user_get_trial(2, 1)

\* C14: for every promo code, used_count equals its initial value plus the
\* number of paid orders that reference the code.
C14_UsedCountMatchesPaidOrders ==
  \A c \in PromoIds :
    promocodes[c].used_count =
      Codes[c].used_count
        + Cardinality({o \in OrderIds : orders[o].status = "paid" /\ orders[o].promocode_id = c})

\* C15: for each user and promo code there is at most one paid order of
\* that user that references the code.
C15_OneSettledOrderPerUserAndCode ==
  \A u \in Users, c \in PromoIds :
    Cardinality({o \in OrderIds : /\ orders[o].status = "paid"
                                  /\ orders[o].user_id = u
                                  /\ orders[o].promocode_id = c}) <= 1

\* The discounted price as the specification states it: price * (1 -
\* value / 100) for a percentage code, max(price - value, 0) for a fixed one.
StatedDiscountedPrice(price, c) ==
  IF c = 0 THEN price
  ELSE IF promocodes[c].discount_type = "percentage"
       THEN (price * (100 - promocodes[c].discount_value)) \div 100
       ELSE IF price - promocodes[c].discount_value > 0
            THEN price - promocodes[c].discount_value ELSE 0

\* The same with the percentage result clamped at zero as well.
ClampedDiscountedPrice(price, c) ==
  IF StatedDiscountedPrice(price, c) > 0 THEN StatedDiscountedPrice(price, c) ELSE 0

PaidTypeOrders == {o \in OrderIds : orders[o].payment_type = "usdt_trc20"}

\* C16 as stated: every order created by buy_product has discount_amount =
\* original price - discounted price, where the discounted price is
\* price * (1 - value/100) for a percentage code and max(price - value, 0)
\* for a fixed code; amount = original_amount - discount_amount; amount >= 0.
C16_DiscountArithmeticAsStated ==
  \A o \in PaidTypeOrders :
    /\ orders[o].original_amount = products[orders[o].product_id].price
    /\ orders[o].discount_amount =
         orders[o].original_amount
           - StatedDiscountedPrice(orders[o].original_amount, orders[o].promocode_id)
    /\ orders[o].amount = orders[o].original_amount - orders[o].discount_amount
    /\ orders[o].amount >= 0

\* C16 amended: the same, with the discounted price of a percentage code
\* clamped at zero too: max(price * (1 - value/100), 0).
C16_DiscountArithmetic ==
  \A o \in PaidTypeOrders :
    /\ orders[o].original_amount = products[orders[o].product_id].price
    /\ orders[o].discount_amount =
         orders[o].original_amount
           - ClampedDiscountedPrice(orders[o].original_amount, orders[o].promocode_id)
    /\ orders[o].amount = orders[o].original_amount - orders[o].discount_amount
    /\ orders[o].amount >= 0

\* An order created with a percentage code of more than 100 percent: its
\* amount is zero and its discount is the whole price.
C16_Witness ==
  \E o \in PaidTypeOrders :
    /\ orders[o].promocode_id # 0
    /\ promocodes[orders[o].promocode_id].discount_type = "percentage"
    /\ promocodes[orders[o].promocode_id].discount_value > 100
    /\ orders[o].amount = 0
    /\ orders[o].discount_amount = orders[o].original_amount

\* C17: a confirmed USDT transfer to the configured wallet satisfies an
\* order exactly when its amount is at least 0.99 of the order's amount.
C17_AmountTolerance ==
  \A i \in 1 .. Len(chain), o \in OrderIds :
    (/\ chain[i].confirmed
     /\ chain[i].tokenAbbr = "USDT"
     /\ chain[i].toAddress = CRYPTO_WALLET)
      => (TxMatches(chain[i], orders[o], CRYPTO_WALLET)
            <=> chain[i].amount * 100 >= orders[o].amount * 99)

\* C20: the recipient is compared with the configured wallet without regard
\* to letter case: a provider answer that holds a confirmed USDT transfer of
\* sufficient amount whose toAddress equals the wallet up to letter case
\* makes verify_payment succeed for the order.
C20_RecipientCaseInsensitive ==
  \A i \in 1 .. Len(chain), o \in OrderIds :
    (/\ chain[i].confirmed
     /\ chain[i].tokenAbbr = "USDT"
     /\ chain[i].amount * 100 >= orders[o].amount * 99
     /\ Lower(chain[i].toAddress) = Lower(CRYPTO_WALLET))
      => FirstMatch(chain, orders[o], CRYPTO_WALLET).success

\* C18: a run of check_subscriptions at time now leaves no entitlement that
\* is active with expires_at < now, leaves every entitlement with a null or
\* future expires_at unchanged, returns the number of entitlements it
\* deactivated, and a second run right after it returns 0 and changes
\* nothing.
C18_CheckSubscriptions ==
  [][CheckSubscriptions
       => /\ Len(userProducts') = Len(userProducts)
          /\ \A i \in 1 .. Len(userProducts) :
               /\ ~(/\ userProducts'[i].is_active
                    /\ userProducts'[i].expires_at # Null
                    /\ userProducts'[i].expires_at < now)
               /\ (userProducts[i].expires_at = Null \/ userProducts[i].expires_at > now)
                    => userProducts'[i] = userProducts[i]
          /\ updated' = Cardinality({i \in 1 .. Len(userProducts) :
                                      userProducts[i].is_active /\ ~userProducts'[i].is_active})
          /\ check_subscriptions(userProducts', now).updated = 0
          /\ check_subscriptions(userProducts', now).rows = userProducts']_vars

\* A run has deactivated an expired entitlement and left an unexpired one
\* active.
C18_Witness ==
  /\ updated # Null
  /\ updated >= 1
  /\ \E i \in 1 .. Len(userProducts) :
       ~userProducts[i].is_active /\ userProducts[i].expires_at < now
  /\ \E i \in 1 .. Len(userProducts) :
       userProducts[i].is_active /\ userProducts[i].expires_at > now

\* C19: for each user and product there is at most one order with status
\* trial and at most one trial entitlement, also when the user's POSTs to
\* buy_product overlap.
C19_OneTrialPerUserAndProduct ==
  \A u \in TrialUsers, p \in ProductIds :
    /\ Cardinality(TrialOrdersOf(u, p)) <= 1
    /\ Cardinality({i \in 1 .. Len(userProducts) : /\ userProducts[i].is_trial
                                                    /\ userProducts[i].user_id = u
                                                    /\ userProducts[i].product_id = p}) <= 1

\* A transfer that meets all conditions of the specification for the order:
\* USDT, recipient equal to the configured wallet up to letter case, amount
\* at least 0.99 of the order's amount, confirmed.
Qualifies(tx, order) ==
  /\ tx.tokenAbbr = "USDT"
  /\ Lower(tx.toAddress) = Lower(CRYPTO_WALLET)
  /\ tx.amount * 100 >= order.amount * 99
  /\ tx.confirmed

\* C21: over the transfers in the order the provider returned them,
\* verify_payment returns success with the hash of the first one that meets
\* all conditions, and failure when none does.
C21_FirstQualifyingTransfer ==
  \A o \in OrderIds :
    LET transactions == InWindow(orders[o].created_at - LookbackSeconds)
        result == FirstMatch(transactions, orders[o], CRYPTO_WALLET)
        qualifying == {i \in 1 .. Len(transactions) :
                         Qualifies(transactions[i], orders[o])}
    IN  IF qualifying = {}
        THEN ~result.success
        ELSE /\ result.success
             /\ result.transaction_hash =
                  transactions[CHOOSE i \in qualifying :
                                 \A j \in qualifying : i <= j].hash

\* C22: when the provider is unreachable, times out, answers with a status
\* other than 200 or with a malformed body, get_wallet_transactions returns an
\* empty sequence, verify_payment reports no payment, and a status poll that
\* ends without a payment on an order whose window has not elapsed leaves the
\* orders, entitlements, stock and promo counters as they were.
C22_ProviderFailureIsNoPayment ==
  [][/\ \A o \in OrderIds :
         \A response \in ProviderResponses(orders[o].created_at - LookbackSeconds) :
           response.kind \in ProviderFailures =>
             /\ get_wallet_transactions(response) = EmptySequence
             /\ ~VerifyResult(orders[o], CRYPTO_WALLET, response).success
     /\ \A s \in Slots :
         (IsPoll(s) /\ reqs'[s].pc = "idle" /\ ~Late(reqs[s].order)) =>
           UNCHANGED store]_vars

Range(queue) == {queue[i] : i \in 1 .. Len(queue)}

C24_StockDecrement ==
  [][\A o \in OrderIds :
       SettlesOrder(o) =>
         LET p == orders[o].product_id
         IN  /\ products'[p].quantity =
                  IF products[p].quantity > 0
                  THEN products[p].quantity - orders[o].quantity
                  ELSE products[p].quantity
             /\ \A q \in ProductIds \ {p} : products'[q] = products[q]]_vars

\* An order was settled while its product's stock was below zero.
C24_Witness ==
  \E i \in 1 .. Len(userProducts) :
    /\ ~userProducts[i].is_trial
    /\ orders[userProducts[i].order_id].status = "paid"
    /\ products[userProducts[i].product_id].quantity < 0

\* C25: an entitlement created by a settlement references the settling
\* order, carries its user, its product and its expires_at, and is active;
\* an existing entitlement is changed by check_subscriptions only, from
\* active to inactive; check_subscriptions changes no order.
C25_EntitlementFrame ==
  [][/\ Len(userProducts') >= Len(userProducts)
     /\ \A i \in 1 .. Len(userProducts) :
          \/ userProducts'[i] = userProducts[i]
          \/ /\ userProducts'[i] = [userProducts[i] EXCEPT !.is_active = FALSE]
             /\ userProducts[i].is_active
             /\ updated' = Cardinality({j \in 1 .. Len(userProducts) :
                                          userProducts'[j] # userProducts[j]})
             /\ orders' = orders
     /\ \A i \in (Len(userProducts) + 1) .. Len(userProducts') :
          LET user_product == userProducts'[i]
          IN  ~user_product.is_trial =>
                /\ Len(userProducts') = Len(userProducts) + 1
                /\ user_product.order_id \in OrderIds
                /\ orders'[user_product.order_id].transaction_hash # NoHash
                /\ user_product.user_id = orders[user_product.order_id].user_id
                /\ user_product.product_id = orders[user_product.order_id].product_id
                /\ user_product.expires_at = orders[user_product.order_id].expires_at
                /\ user_product.is_active
     /\ (userProducts' # userProducts /\ Len(userProducts') = Len(userProducts)) =>
          orders' = orders]_vars

\* The entitlement of a settled order was deactivated by check_subscriptions
\* and the order was settled once more afterwards: the new entitlement is
\* active and the old one is still inactive.
C25_Witness ==
  \E i, j \in 1 .. Len(userProducts) :
    /\ i < j
    /\ userProducts[i].order_id = userProducts[j].order_id
    /\ ~userProducts[i].is_active
    /\ userProducts[j].is_active

\* The failures of the specification that apply to a code entered by user
\* user_id for product product_id.
PromoFailures(code, product_id, user_id) ==
  IF code \notin PromoIds THEN {"not found"}
  ELSE LET promocode == promocodes[code] IN
    (IF ~promocode.is_active THEN {"inactive"} ELSE {})
    \cup (IF \/ promocode.valid_from # Null /\ now < promocode.valid_from
             \/ promocode.valid_until # Null /\ now > promocode.valid_until
          THEN {"outside window"} ELSE {})
    \cup (IF promocode.usage_limit > 0 /\ promocode.used_count >= promocode.usage_limit
          THEN {"usage exhausted"} ELSE {})
    \cup (IF promocode.product_id # 0 /\ promocode.product_id # product_id
          THEN {"other product"} ELSE {})
    \cup (IF \E o \in OrderIds : /\ orders[o].user_id = user_id
                                  /\ orders[o].promocode_id = code
                                  /\ orders[o].status = "paid"
          THEN {"used by this user"} ELSE {})

PromoInputs == CodeInputs \X ProductIds \X Users

\* C26: validate_promocode returns not-valid exactly when one of the
\* failures applies, two inputs that fail for different single reasons get
\* different messages, and buy_product creates no order with a code whose
\* validation failed.
C26_PromoValidation ==
  [][/\ \A i \in PromoInputs :
          validate_promocode(i[1], i[2], i[3]).valid <=> PromoFailures(i[1], i[2], i[3]) = {}
     /\ \A i, j \in PromoInputs :
          LET fi == PromoFailures(i[1], i[2], i[3])
              fj == PromoFailures(j[1], j[2], j[3])
          IN  (Cardinality(fi) = 1 /\ Cardinality(fj) = 1 /\ fi # fj) =>
                validate_promocode(i[1], i[2], i[3]).message
                  # validate_promocode(j[1], j[2], j[3]).message
     /\ Len(orders') > Len(orders) =>
          LET order == orders'[Len(orders')]
          IN  order.promocode_id # 0 =>
                validate_promocode(order.promocode_id, order.product_id, order.user_id).valid
    ]_vars

\* C27: the matcher does not look at the hashes recorded on orders: a
\* transfer of the window that passes the matcher's tests for an order
\* satisfies it, also when another order already carries that hash.
C27_MatcherIgnoresRecordedHashes ==
  \A o \in OrderIds :
    LET transactions == InWindow(orders[o].created_at - LookbackSeconds)
        result == FirstMatch(transactions, orders[o], CRYPTO_WALLET)
    IN  (\E i \in 1 .. Len(transactions) :
           TxMatches(transactions[i], orders[o], CRYPTO_WALLET)) =>
          /\ result.success
          /\ result \in verify_payment(orders[o], CRYPTO_WALLET)

\* Two distinct orders are paid with the hash of the same transfer, each
\* with one entitlement.
C27_Witness ==
  \E o1, o2 \in OrderIds :
    /\ o1 # o2
    /\ orders[o1].status = "paid" /\ orders[o2].status = "paid"
    /\ orders[o1].transaction_hash = TxHash(1)
    /\ orders[o2].transaction_hash = TxHash(1)
    /\ Cardinality(Entitlements(o1)) = 1
    /\ Cardinality(Entitlements(o2)) = 1

\* C28: the usage ceiling is tested when an order is created and not when
\* it is settled: an order is created with a limited code only while
\* used_count < usage_limit, and every settlement of an order that carries a
\* code adds one to its used_count whatever the limit.
C28_CeilingCheckedAtCreationOnly ==
  [][/\ Len(orders') > Len(orders) =>
          LET c == orders'[Len(orders')].promocode_id
          IN  (c # 0 /\ promocodes[c].usage_limit > 0) =>
                promocodes[c].used_count < promocodes[c].usage_limit
     /\ \A o \in OrderIds :
          (SettlesOrder(o) /\ orders[o].promocode_id # 0) =>
            promocodes'[orders[o].promocode_id].used_count
              = promocodes[orders[o].promocode_id].used_count + 1]_vars

\* Two orders created with the same limited code are both paid, each settled
\* once, and the code's used_count is above its usage_limit.
C28_Witness ==
  \E o1, o2 \in OrderIds, c \in PromoIds :
    /\ o1 # o2
    /\ orders[o1].promocode_id = c /\ orders[o2].promocode_id = c
    /\ orders[o1].status = "paid" /\ orders[o2].status = "paid"
    /\ Cardinality(Entitlements(o1)) = 1 /\ Cardinality(Entitlements(o2)) = 1
    /\ promocodes[c].usage_limit > 0
    /\ promocodes[c].used_count > promocodes[c].usage_limit

====
